---- MODULE Spec2Model ----
(***************************************************************************)
(* Vehicle-management REST API (FastAPI + SQLAlchemy) and its operator CLI. *)
(*                                                                         *)
(* State: the two tables (veiculos, usuarios), the wall clock in minutes,   *)
(* the bearer tokens issued so far, and one record per request slot.        *)
(* A request or call is split where it writes: everything up to its first   *)
(* write (dependencies, validation, the handler's queries) is one step, the *)
(* add/assign + commit + refresh is the next.  The other slot may run       *)
(* between the two.  Response bodies carry the ids of the rows returned.    *)
(* Each slot also records the storage session its request holds.           *)
(*                                                                         *)
(* Three specifications share the actions: SpecVeiculos (vehicle endpoints  *)
(* and crud calls racing, one logged-in user), SpecUsuarios (user creation  *)
(* and deletion over HTTP, crud and the CLI, racing) and SpecAuth (tokens,  *)
(* the clock and every endpoint, with the operator deleting and re-creating *)
(* the user).                                                               *)
(***************************************************************************)
EXTENDS Integers, FiniteSets, Sequences, TLC

VARIABLES veiculos, usuarios, now, issued, procs

vars == <<veiculos, usuarios, now, issued, procs>>

(* ------------------------------ bounds --------------------------------- *)
MaxId    == 2          \* ids handed out by the tables stay within 1..MaxId
MaxClock == 3          \* the clock stops after MaxClock minutes
MaxTokens == 2         \* tokens the clients keep

\* two slots, each running one request or call at a time: 1 and 2 race
Procs == {1, 2}

(* --------------------------- input universes --------------------------- *)
Placas    == {"ABC1234", "XYZ5678"}
BadPlaca  == "AB12"
Usernames == {"alice", "bob"}
Passwords == {"secret", "wrong"}
Omitted   == "<omitted>"
Invalido  == "INVALIDO"

(* ------------------------------ models.py ------------------------------ *)
\* models.py:14 default and models.py:17-20 check_status
StatusValidos == {"CONNECTADO", "DESCONECTADO"}
StatusDefault == "DESCONECTADO"

Max(S) == CHOOSE x \in S : \A y \in S : y <= x

\* Integer primary key: the engine hands out max(id)+1 (SQLite rowid)
NextId(rows) == IF rows = {} THEN 1 ELSE Max({r.id : r \in rows}) + 1

\* unique=True on placa plus the check_status constraint: what makes the
\* engine raise IntegrityError when a veiculos row is flushed
VeiculoIntegrityError_NoUnique(rows, v) == v.status \notin StatusValidos

VeiculoIntegrityError(rows, v) ==
    \/ \E r \in rows : r.placa = v.placa
    \/ v.status \notin StatusValidos

\* unique=True on username
UsuarioIntegrityError(rows, username) == \E r \in rows : r.username = username

(* ------------------------------ schemas.py ----------------------------- *)
\* variant: the status field declared without its default value
VeiculoCreate_NoDefault(body) ==
    [marca |-> body.marca, modelo |-> body.modelo, ano |-> body.ano,
     placa |-> body.placa, status |-> body.status]

\* VeiculoCreate: the body as parsed (status filled with its default)
VeiculoCreate(body) ==
    [marca |-> body.marca, modelo |-> body.modelo, ano |-> body.ano,
     placa |-> body.placa,
     status |-> IF body.status = Omitted THEN StatusDefault ELSE body.status]

\* VeiculoCreate's field constraints and status_must_be_valid
VeiculoCreateValid(body) ==
    /\ body.ano >= 1886
    /\ Len(body.placa) = 7
    /\ VeiculoCreate(body).status \in StatusValidos

(* ------------------------------- responses ----------------------------- *)
NoResp == [code |-> 0, exc |-> "", detail |-> "", data |-> {}]
Ok(data) == [code |-> 200, exc |-> "", detail |-> "", data |-> data]
HTTPException(code, detail) ==
    [code |-> code, exc |-> "HTTPException", detail |-> detail, data |-> {}]
\* an exception no handler catches: the framework answers 500
Unhandled(exc) ==
    [code |-> 500, exc |-> exc, detail |-> "Internal Server Error", data |-> {}]
\* body that fails its schema: the framework answers 422
RequestValidationError ==
    [code |-> 422, exc |-> "RequestValidationError", detail |-> "validation", data |-> {}]
\* plain Python calls (crud.*, the CLI): a return value or a raised exception
Return(data) == [code |-> 0, exc |-> "", detail |-> "", data |-> data]
Raise(exc, detail) == [code |-> 0, exc |-> exc, detail |-> detail, data |-> {}]
Printed(msg) == [code |-> 0, exc |-> "", detail |-> msg, data |-> {}]

(* ------------------------------ requests -------------------------------- *)
NoArg == [none |-> TRUE]

\* handlers that declare db: Session = Depends(get_db)
Injected ==
    {"login_for_access_token", "criar_usuario", "listar_veiculos", "criar_veiculo",
     "obter_veiculo", "atualizar_status", "excluir_veiculo"}
\* the CLI opens its own session: with database.SessionLocal() as db
Scoped == {"main"}

\* a storage session: sid names the object, open whether it is still usable
NoSession == [sid |-> 0, open |-> FALSE]
\* db = SessionLocal(): a new session object for this request and no other;
\* read_root and direct crud calls (whose caller owns the session) get none
get_db(p, op) ==
    IF op \in Injected \cup Scoped THEN [sid |-> p, open |-> TRUE] ELSE NoSession
\* variant: yield db; db.close() with no try/finally around the yield
get_db_finally_NoTry(db, r) ==
    IF r.exc = "" THEN [db EXCEPT !.open = FALSE] ELSE db
\* finally: db.close(), whatever response or exception r the request ends with
get_db_finally(db, r) == [db EXCEPT !.open = FALSE]

IdleProc ==
    [op |-> "none", pc |-> "idle", arg |-> NoArg, loc |-> NoArg, resp |-> NoResp,
     db |-> NoSession]

Free(p) == procs[p].pc \in {"idle", "done"}
At(p, op, pc) == procs[p].op = op /\ procs[p].pc = pc

Call(p, op, pc, arg, loc) ==
    procs' = [procs EXCEPT ![p] =
        [op |-> op, pc |-> pc, arg |-> arg, loc |-> loc, resp |-> NoResp,
         db |-> get_db(p, op)]]
Goto(p, pc, loc) ==
    procs' = [procs EXCEPT ![p].pc = pc, ![p].loc = loc]
Finish(p, op, r) ==
    procs' = [procs EXCEPT ![p] =
        [op |-> op, pc |-> "done", arg |-> NoArg, loc |-> NoArg, resp |-> r,
         db |-> get_db_finally(get_db(p, op), r)]]

(* ------------------------- auth layer (app/auth.py) --------------------- *)
\* minutes a token stays valid; configured in the auth module
ACCESS_TOKEN_EXPIRE_MINUTES == 2

\* salted slow hash: the stored value is never the plaintext
get_password_hash(password) == [scheme |-> "bcrypt", digest |-> password]
verify_password(plain, hashed) == hashed = get_password_hash(plain)

\* look the user up by username, then verify the password: the matching rows
authenticate_user(rows, username, password) ==
    {u \in rows : u.username = username /\ verify_password(password, u.hashed_password)}

\* signed token binding the subject and an expiry expires_delta from now
create_access_token(sub, expires_delta) ==
    [sub |-> sub, exp |-> now + expires_delta, sig |-> "SECRET_KEY"]

NoToken == [sub |-> "", exp |-> 0, sig |-> "none"]
\* a token for a real username, far expiry, signed with some other key
ForgedTokens ==
    {[sub |-> "alice", exp |-> MaxClock + ACCESS_TOKEN_EXPIRE_MINUTES, sig |-> "forged"]}
\* what a client can put in the Authorization header
Presentable == issued \cup ForgedTokens \cup {NoToken}

\* signature and expiry check of a presented token
TokenDecodes(token) == token.sig = "SECRET_KEY" /\ now <= token.exp

\* the dependency of every vehicle endpoint: the user the token resolves to
get_current_active_user(token) ==
    {u \in usuarios : TokenDecodes(token) /\ u.username = token.sub}

Unauthorized == [code |-> 401, exc |-> "HTTPException",
                 detail |-> "WWW-Authenticate: Bearer", data |-> {}]

(* --------------------------- storage statements ------------------------- *)
Row(id, v) == [id |-> id, marca |-> v.marca, modelo |-> v.modelo, ano |-> v.ano,
               placa |-> v.placa, status |-> v.status]

\* UPDATE veiculos SET status = ... WHERE id = ...
UpdateStatus(rows, id, status) ==
    {IF r.id = id THEN [r EXCEPT !.status = status] ELSE r : r \in rows}
\* DELETE FROM ... WHERE id = ...
DeleteId(rows, id) == {r \in rows : r.id # id}
ById(rows, id) == {r \in rows : r.id = id}

(* --------------------------- main.py: vehicles -------------------------- *)
\* the part of a loaded ORM row that its later flush depends on
Loaded(rows) == LET r == CHOOSE r \in rows : TRUE IN [id |-> r.id, status |-> r.status]
\* response bodies carry the rows' ids
Ids_of(rows) == {r.id : r \in rows}

\* Depends(get_current_active_user) and the parameters of a vehicle endpoint:
\* the dependency is resolved first (401), then the parameters are validated
\* (422), then the handler runs up to its first write.  The dependency only
\* reads usuarios, so it is taken in one step with the handler's first query.
Depends(p, op, token, valid, handler) ==
    /\ Free(p)
    /\ token \in Presentable
    /\ IF get_current_active_user(token) = {}
       THEN Finish(p, op, Unauthorized) /\ UNCHANGED <<veiculos, usuarios, now, issued>>
       ELSE IF ~valid
       THEN Finish(p, op, RequestValidationError)
            /\ UNCHANGED <<veiculos, usuarios, now, issued>>
       ELSE handler

\* GET /veiculos
listar_veiculos(p, token) ==
    Depends(p, "listar_veiculos", token, TRUE,
        /\ Finish(p, "listar_veiculos", Ok(Ids_of(veiculos)))
        /\ UNCHANGED <<veiculos, usuarios, now, issued>>)

\* POST /veiculos: the request up to the handler's db.add
criar_veiculo(p, token, body) ==
    Depends(p, "criar_veiculo", token, VeiculoCreateValid(body),
        /\ LET veiculo == VeiculoCreate(body) IN
           IF veiculo.status \notin StatusValidos
           THEN Finish(p, "criar_veiculo", HTTPException(400, "Status invalido."))
           ELSE Call(p, "criar_veiculo", "commit", veiculo, NoArg)
        /\ UNCHANGED <<veiculos, usuarios, now, issued>>)
\* variant: the commit without its try / except IntegrityError
criar_veiculo_commit_NoExcept(p) ==
    /\ At(p, "criar_veiculo", "commit")
    /\ LET veiculo == procs[p].arg IN
       IF VeiculoIntegrityError(veiculos, veiculo)
       THEN /\ Finish(p, "criar_veiculo", Unhandled("IntegrityError"))
            /\ UNCHANGED veiculos
       ELSE /\ NextId(veiculos) <= MaxId
            /\ veiculos' = veiculos \cup {Row(NextId(veiculos), veiculo)}
            /\ Finish(p, "criar_veiculo", Ok({NextId(veiculos)}))
    /\ UNCHANGED <<usuarios, now, issued>>

\* db.add, db.commit, db.refresh inside try / except IntegrityError
criar_veiculo_commit(p) ==
    /\ At(p, "criar_veiculo", "commit")
    /\ LET veiculo == procs[p].arg IN
       IF VeiculoIntegrityError(veiculos, veiculo)
       THEN \* except IntegrityError: rollback
            /\ Finish(p, "criar_veiculo", HTTPException(400, "Placa ja registrada."))
            /\ UNCHANGED veiculos
       ELSE /\ NextId(veiculos) <= MaxId
            /\ veiculos' = veiculos \cup {Row(NextId(veiculos), veiculo)}
            /\ Finish(p, "criar_veiculo", Ok({NextId(veiculos)}))
    /\ UNCHANGED <<usuarios, now, issued>>

\* GET /veiculos/{veiculo_id}
obter_veiculo(p, token, veiculo_id) ==
    Depends(p, "obter_veiculo", token, TRUE,
        /\ LET veiculo == ById(veiculos, veiculo_id) IN
           IF veiculo = {}
           THEN Finish(p, "obter_veiculo", HTTPException(404, "Veiculo nao encontrado"))
           ELSE Finish(p, "obter_veiculo", Ok(Ids_of(veiculo)))
        /\ UNCHANGED <<veiculos, usuarios, now, issued>>)

\* the flush of a loaded row whose status was assigned, then refresh:
\* no UPDATE is sent when the assigned value equals the loaded one; an UPDATE
\* that matches no row raises StaleDataError, and so does refreshing a vanished row
FlushStatus(p, op, ok, stale) ==
    LET loaded == procs[p].loc
        status == procs[p].arg.status
        after  == IF loaded.status = status THEN veiculos
                  ELSE UpdateStatus(veiculos, loaded.id, status)
    IN /\ veiculos' = after
       /\ IF ById(veiculos, loaded.id) = {}
          THEN Finish(p, op, stale)
          ELSE Finish(p, op, ok)

\* variant: the status is assigned without being checked
atualizar_status_NoCheck(p, token, veiculo_id, status) ==
    Depends(p, "atualizar_status", token, TRUE,
        /\ LET veiculo == ById(veiculos, veiculo_id) IN
           IF veiculo = {}
           THEN Finish(p, "atualizar_status", HTTPException(404, "Veiculo nao encontrado"))
           ELSE Call(p, "atualizar_status", "commit", [status |-> status], Loaded(veiculo))
        /\ UNCHANGED <<veiculos, usuarios, now, issued>>)

\* PUT /veiculos/{veiculo_id}?status= : up to the assignment veiculo.status = status
atualizar_status(p, token, veiculo_id, status) ==
    Depends(p, "atualizar_status", token, TRUE,
        /\ LET veiculo == ById(veiculos, veiculo_id) IN
           IF status \notin StatusValidos
           THEN Finish(p, "atualizar_status", HTTPException(400, "Status invalido."))
           ELSE IF veiculo = {}
           THEN Finish(p, "atualizar_status", HTTPException(404, "Veiculo nao encontrado"))
           ELSE Call(p, "atualizar_status", "commit", [status |-> status], Loaded(veiculo))
        /\ UNCHANGED <<veiculos, usuarios, now, issued>>)
atualizar_status_commit(p) ==
    /\ At(p, "atualizar_status", "commit")
    /\ FlushStatus(p, "atualizar_status", Ok({procs[p].loc.id}),
                   Unhandled("StaleDataError"))
    /\ UNCHANGED <<usuarios, now, issued>>

\* variant: the endpoint declared without Depends(get_current_active_user)
excluir_veiculo_NoAuth(p, token, veiculo_id) ==
    /\ Free(p)
    /\ token \in Presentable
    /\ LET veiculo == ById(veiculos, veiculo_id) IN
       IF veiculo = {}
       THEN Finish(p, "excluir_veiculo", HTTPException(404, "Veiculo nao encontrado"))
       ELSE Call(p, "excluir_veiculo", "commit", NoArg, [id |-> veiculo_id])
    /\ UNCHANGED <<veiculos, usuarios, now, issued>>

\* variant: the row is not looked up before the delete is answered
excluir_veiculo_NoLookup(p, token, veiculo_id) ==
    Depends(p, "excluir_veiculo", token, TRUE,
        /\ Call(p, "excluir_veiculo", "commit", NoArg, [id |-> veiculo_id])
        /\ UNCHANGED <<veiculos, usuarios, now, issued>>)

\* DELETE /veiculos/{veiculo_id}: up to db.delete
excluir_veiculo(p, token, veiculo_id) ==
    Depends(p, "excluir_veiculo", token, TRUE,
        /\ LET veiculo == ById(veiculos, veiculo_id) IN
           IF veiculo = {}
           THEN Finish(p, "excluir_veiculo", HTTPException(404, "Veiculo nao encontrado"))
           ELSE Call(p, "excluir_veiculo", "commit", NoArg, [id |-> veiculo_id])
        /\ UNCHANGED <<veiculos, usuarios, now, issued>>)
\* db.delete + commit: a DELETE that matches no row only warns
excluir_veiculo_commit(p) ==
    /\ At(p, "excluir_veiculo", "commit")
    /\ veiculos' = DeleteId(veiculos, procs[p].loc.id)
    /\ Finish(p, "excluir_veiculo", Ok({}))
    /\ UNCHANGED <<usuarios, now, issued>>

(* ---------------------------- crud.py: vehicles ------------------------- *)
get_veiculo(rows, veiculo_id) == ById(rows, veiculo_id)
get_veiculo_by_placa(rows, placa) == {r \in rows : r.placa = placa}

\* crud.create_veiculo: status check, plate lookup, then (next step) the commit
create_veiculo(p, veiculo) ==
    /\ Free(p)
    /\ IF veiculo.status \notin StatusValidos
       THEN Finish(p, "create_veiculo", Raise("ValueError", "Status deve ser valido"))
       ELSE IF get_veiculo_by_placa(veiculos, veiculo.placa) # {}
       THEN Finish(p, "create_veiculo", Raise("ValueError", "placa ja existe"))
       ELSE Call(p, "create_veiculo", "commit", veiculo, NoArg)
    /\ UNCHANGED <<veiculos, usuarios, now, issued>>
create_veiculo_commit(p) ==
    /\ At(p, "create_veiculo", "commit")
    /\ LET veiculo == procs[p].arg IN
       IF VeiculoIntegrityError(veiculos, veiculo)
       THEN \* except IntegrityError: rollback, raise ValueError
            /\ Finish(p, "create_veiculo", Raise("ValueError", "Erro ao adicionar veiculo"))
            /\ UNCHANGED veiculos
       ELSE /\ NextId(veiculos) <= MaxId
            /\ veiculos' = veiculos \cup {Row(NextId(veiculos), veiculo)}
            /\ Finish(p, "create_veiculo", Return({NextId(veiculos)}))
    /\ UNCHANGED <<usuarios, now, issued>>

\* crud.update_veiculo_status
update_veiculo_status(p, veiculo_id, status) ==
    /\ Free(p)
    /\ LET veiculo == get_veiculo(veiculos, veiculo_id) IN
       IF status \notin StatusValidos
       THEN Finish(p, "update_veiculo_status", Raise("ValueError", "Status deve ser valido"))
       ELSE IF veiculo = {}
       THEN Finish(p, "update_veiculo_status", Return({}))
       ELSE Call(p, "update_veiculo_status", "commit", [status |-> status],
                 Loaded(veiculo))
    /\ UNCHANGED <<veiculos, usuarios, now, issued>>
update_veiculo_status_commit(p) ==
    /\ At(p, "update_veiculo_status", "commit")
    /\ FlushStatus(p, "update_veiculo_status", Return({procs[p].loc.id}),
                   Raise("StaleDataError", "row gone"))
    /\ UNCHANGED <<usuarios, now, issued>>

\* crud.delete_veiculo
delete_veiculo(p, veiculo_id) ==
    /\ Free(p)
    /\ LET veiculo == get_veiculo(veiculos, veiculo_id) IN
       IF veiculo = {}
       THEN Finish(p, "delete_veiculo", Return({}))
       ELSE Call(p, "delete_veiculo", "commit", NoArg, [id |-> veiculo_id])
    /\ UNCHANGED <<veiculos, usuarios, now, issued>>
delete_veiculo_commit(p) ==
    /\ At(p, "delete_veiculo", "commit")
    /\ veiculos' = DeleteId(veiculos, procs[p].loc.id)
    /\ Finish(p, "delete_veiculo", Return({procs[p].loc.id}))
    /\ UNCHANGED <<usuarios, now, issued>>

(* ----------------------------- crud.py: users --------------------------- *)
get_usuario_by_username(rows, username) == {r \in rows : r.username = username}

UsuarioRow(id, username, password) ==
    [id |-> id, username |-> username, hashed_password |-> get_password_hash(password)]

\* db.add + db.commit + db.refresh of a new usuarios row; raised is what an
\* IntegrityError at commit becomes for the caller, done what the caller makes
\* of the new row
InsertUsuario(p, op, usuario, raised, done) ==
    IF UsuarioIntegrityError(usuarios, usuario.username)
    THEN /\ Finish(p, op, raised)
         /\ UNCHANGED usuarios
    ELSE /\ NextId(usuarios) <= MaxId
         /\ usuarios' = usuarios \cup
                {UsuarioRow(NextId(usuarios), usuario.username, usuario.password)}
         /\ Finish(p, op, done)

\* crud.create_usuario: lookup, then (next step) hash, add and commit
create_usuario(p, usuario) ==
    /\ Free(p)
    /\ IF get_usuario_by_username(usuarios, usuario.username) # {}
       THEN Finish(p, "create_usuario", Raise("ValueError", "Usuario ja existe."))
       ELSE Call(p, "create_usuario", "commit", usuario, NoArg)
    /\ UNCHANGED <<veiculos, usuarios, now, issued>>
create_usuario_commit(p) ==
    /\ At(p, "create_usuario", "commit")
    /\ InsertUsuario(p, "create_usuario", procs[p].arg,
                     Raise("IntegrityError", "UNIQUE constraint failed"),
                     Return({NextId(usuarios)}))
    /\ UNCHANGED <<veiculos, now, issued>>

\* crud.delete_usuario
delete_usuario(p, usuario_id) ==
    /\ Free(p)
    /\ LET usuario == ById(usuarios, usuario_id) IN
       IF usuario = {}
       THEN Finish(p, "delete_usuario", Raise("ValueError", "Usuario nao encontrado."))
       ELSE Call(p, "delete_usuario", "commit", NoArg, [id |-> usuario_id])
    /\ UNCHANGED <<veiculos, usuarios, now, issued>>
delete_usuario_commit(p) ==
    /\ At(p, "delete_usuario", "commit")
    /\ usuarios' = DeleteId(usuarios, procs[p].loc.id)
    /\ Finish(p, "delete_usuario", Return({procs[p].loc.id}))
    /\ UNCHANGED <<veiculos, now, issued>>

(* ----------------------- main.py: open endpoints ------------------------ *)
\* GET /
read_root(p) ==
    /\ Free(p)
    /\ Finish(p, "read_root", Ok({"Bem-vindo a API de gerenciamento de veiculos!"}))
    /\ UNCHANGED <<veiculos, usuarios, now, issued>>

\* POST /usuarios/ : no token dependency; the body must carry both fields
criar_usuario(p, usuario) ==
    /\ Free(p)
    /\ IF usuario.username = Omitted \/ usuario.password = Omitted
       THEN Finish(p, "criar_usuario", RequestValidationError)
       ELSE Call(p, "criar_usuario", "commit", usuario, NoArg)
    /\ UNCHANGED <<veiculos, usuarios, now, issued>>
\* db.add, db.commit, db.refresh with nothing around them
criar_usuario_commit(p) ==
    /\ At(p, "criar_usuario", "commit")
    /\ InsertUsuario(p, "criar_usuario", procs[p].arg,
                     Unhandled("IntegrityError"), Ok({NextId(usuarios)}))
    /\ UNCHANGED <<veiculos, now, issued>>

\* variant: the token is issued without looking at authenticate_user's result
login_for_access_token_NoCheck(p, username, password) ==
    /\ Free(p)
    /\ LET access_token == create_access_token(username, ACCESS_TOKEN_EXPIRE_MINUTES)
       IN /\ Cardinality(issued \cup {access_token}) <= MaxTokens
          /\ issued' = issued \cup {access_token}
          /\ Finish(p, "login_for_access_token",
                    Ok({[access_token |-> access_token, token_type |-> "bearer"]}))
    /\ UNCHANGED <<veiculos, usuarios, now>>

\* variant: expires_delta is not passed on, the token expires at once
login_for_access_token_NoDelta(p, username, password) ==
    /\ Free(p)
    /\ LET user == authenticate_user(usuarios, username, password)
           access_token == create_access_token(username, 0)
       IN IF user = {}
          THEN /\ Finish(p, "login_for_access_token", Unauthorized)
               /\ UNCHANGED issued
          ELSE /\ Cardinality(issued \cup {access_token}) <= MaxTokens
               /\ issued' = issued \cup {access_token}
               /\ Finish(p, "login_for_access_token",
                         Ok({[access_token |-> access_token, token_type |-> "bearer"]}))
    /\ UNCHANGED <<veiculos, usuarios, now>>

\* POST /token : no token dependency
login_for_access_token(p, username, password) ==
    /\ Free(p)
    /\ LET user == authenticate_user(usuarios, username, password)
           access_token == create_access_token(username, ACCESS_TOKEN_EXPIRE_MINUTES)
       IN IF user = {}
          THEN /\ Finish(p, "login_for_access_token", Unauthorized)
               /\ UNCHANGED issued
          ELSE /\ Cardinality(issued \cup {access_token}) <= MaxTokens
               /\ issued' = issued \cup {access_token}
               /\ Finish(p, "login_for_access_token",
                         Ok({[access_token |-> access_token, token_type |-> "bearer"]}))
    /\ UNCHANGED <<veiculos, usuarios, now>>

(* ------------------------- manage_users.py: main ------------------------ *)
\* try: ... except Exception as e: print(...)
Caught_NoTry(r) == r
Caught(r) == IF r.exc # "" THEN Printed("Ocorreu um erro") ELSE r

\* the CLI up to and including its first query
main(p, action, username, password) ==
    /\ Free(p)
    /\ action \in {"create", "list", "delete"}
    /\ LET existing == get_usuario_by_username(usuarios, username) IN
       CASE action = "create" ->
              IF username = Omitted \/ password = Omitted
              THEN Finish(p, "main", Printed("Usuario e senha sao necessarios"))
              ELSE IF existing # {}
              THEN Finish(p, "main", Printed("ja existe"))
              ELSE Call(p, "main", "create_check",
                        [username |-> username, password |-> password], NoArg)
         [] action = "list" ->
              Finish(p, "main", [Printed("lista") EXCEPT !.data = Ids_of(usuarios)])
         [] action = "delete" ->
              IF username = Omitted
              THEN Finish(p, "main", Printed("Nome de usuario e necessario"))
              ELSE IF existing = {}
              THEN Finish(p, "main", Printed("nao encontrado"))
              ELSE Call(p, "main", "delete_check", NoArg,
                        [id |-> (CHOOSE r \in existing : TRUE).id])
    /\ UNCHANGED <<veiculos, usuarios, now, issued>>

\* crud.create_usuario called from the CLI: its own lookup ...
main_create_check(p) ==
    /\ At(p, "main", "create_check")
    /\ IF get_usuario_by_username(usuarios, procs[p].arg.username) # {}
       THEN Finish(p, "main", Caught(Raise("ValueError", "Usuario ja existe.")))
       ELSE Goto(p, "create_commit", NoArg)
    /\ UNCHANGED <<veiculos, usuarios, now, issued>>
\* ... and its commit
main_create_commit(p) ==
    /\ At(p, "main", "create_commit")
    /\ InsertUsuario(p, "main", procs[p].arg,
                     Caught(Raise("IntegrityError", "UNIQUE constraint failed")),
                     Printed("criado com sucesso"))
    /\ UNCHANGED <<veiculos, now, issued>>

\* crud.delete_usuario called from the CLI: its query by id ...
main_delete_check(p) ==
    /\ At(p, "main", "delete_check")
    /\ IF ById(usuarios, procs[p].loc.id) = {}
       THEN Finish(p, "main", Caught(Raise("ValueError", "Usuario nao encontrado.")))
       ELSE Goto(p, "delete_commit", procs[p].loc)
    /\ UNCHANGED <<veiculos, usuarios, now, issued>>
\* ... and its delete + commit
main_delete_commit(p) ==
    /\ At(p, "main", "delete_commit")
    /\ usuarios' = DeleteId(usuarios, procs[p].loc.id)
    /\ Finish(p, "main", Printed("excluido com sucesso"))
    /\ UNCHANGED <<veiculos, now, issued>>

(* -------------------------------- clock --------------------------------- *)
Tick ==
    /\ now < MaxClock
    /\ now' = now + 1
    /\ UNCHANGED <<veiculos, usuarios, issued, procs>>

(* ----------------------------- request inputs --------------------------- *)
Bodies ==
    {[marca |-> "Fiat", modelo |-> "Uno", ano |-> 2022, placa |-> pl, status |-> "CONNECTADO"] :
        pl \in Placas}
    \cup {[marca |-> "Fiat", modelo |-> "Uno", ano |-> 2022, placa |-> "XYZ5678",
           status |-> Omitted],
          [marca |-> "Fiat", modelo |-> "Uno", ano |-> 2022, placa |-> "ABC1234",
           status |-> Invalido],
          [marca |-> "Fiat", modelo |-> "Uno", ano |-> 1885, placa |-> "ABC1234",
           status |-> "CONNECTADO"],
          [marca |-> "Fiat", modelo |-> "Uno", ano |-> 2022, placa |-> BadPlaca,
           status |-> "CONNECTADO"]}
\* objects handed to crud.create_veiculo: status may have been assigned after
\* construction, so it is not restricted to the validated values
Objects ==
    {[marca |-> "Fiat", modelo |-> "Uno", ano |-> 2022, placa |-> pl, status |-> "DESCONECTADO"] :
        pl \in Placas}
    \cup {[marca |-> "Fiat", modelo |-> "Uno", ano |-> 2022, placa |-> "XYZ5678",
           status |-> Invalido]}
Ids == 1..(MaxId + 1)
StatusArgs == StatusValidos \cup {Invalido}

(* ------------------------------ vehicles -------------------------------- *)
AliceRow == UsuarioRow(1, "alice", "secret")
AliceToken == [sub |-> "alice", exp |-> ACCESS_TOKEN_EXPIRE_MINUTES, sig |-> "SECRET_KEY"]

\* one user has been created and has logged in at minute 0
InitVeiculos ==
    /\ veiculos = {}
    /\ usuarios = {AliceRow}
    /\ now = 0
    /\ issued = {AliceToken}
    /\ procs = [p \in Procs |-> IdleProc]

NextVeiculos ==
    \E p \in Procs :
        \/ \E t \in {AliceToken} : listar_veiculos(p, t)
        \/ \E t \in {AliceToken}, b \in Bodies : criar_veiculo(p, t, b)
        \/ criar_veiculo_commit(p)
        \/ \E t \in {AliceToken}, i \in Ids : obter_veiculo(p, t, i)
        \/ \E t \in {AliceToken}, i \in Ids, st \in StatusArgs :
              atualizar_status(p, t, i, st)
        \/ atualizar_status_commit(p)
        \/ \E t \in {AliceToken}, i \in Ids : excluir_veiculo(p, t, i)
        \/ excluir_veiculo_commit(p)
        \/ \E v \in Objects : create_veiculo(p, v)
        \/ create_veiculo_commit(p)
        \/ \E i \in Ids, st \in StatusArgs : update_veiculo_status(p, i, st)
        \/ update_veiculo_status_commit(p)
        \/ \E i \in Ids : delete_veiculo(p, i)
        \/ delete_veiculo_commit(p)

SpecVeiculos == InitVeiculos /\ [][NextVeiculos]_vars

(* -------------------------------- users --------------------------------- *)
UsuarioBodies ==
    {[username |-> u, password |-> "secret"] : u \in Usernames}
    \cup {[username |-> "alice", password |-> Omitted]}
CliUsernames == Usernames \cup {Omitted}
CliPasswords == {"secret", Omitted}

\* fresh database, tables created by the lifespan handler
InitUsuarios ==
    /\ veiculos = {}
    /\ usuarios = {}
    /\ now = 0
    /\ issued = {}
    /\ procs = [p \in Procs |-> IdleProc]

NextUsuarios ==
    \E p \in Procs :
        \/ \E u \in UsuarioBodies : criar_usuario(p, u)
        \/ criar_usuario_commit(p)
        \/ \E u \in Usernames : create_usuario(p, [username |-> u, password |-> "secret"])
        \/ create_usuario_commit(p)
        \/ \E i \in Ids : delete_usuario(p, i)
        \/ delete_usuario_commit(p)
        \/ \E a \in {"create", "list", "delete"}, u \in CliUsernames, pw \in CliPasswords :
              main(p, a, u, pw)
        \/ main_create_check(p)
        \/ main_create_commit(p)
        \/ main_delete_check(p)
        \/ main_delete_commit(p)

SpecUsuarios == InitUsuarios /\ [][NextUsuarios]_vars

(* ------------------------ tokens and the endpoints ---------------------- *)
\* slot 1 is an HTTP client, slot 2 the operator at the CLI
Client == 1
Operator == 2
AuthBodies ==
    {b \in Bodies : b.placa = "ABC1234" /\ b.ano = 2022 /\ b.status \in {"CONNECTADO", Invalido}}
AuthIds == {1, 2}
AuthStatus == {"DESCONECTADO", Invalido}

NextAuth ==
    \/ Tick
    \/ read_root(Client)
    \/ criar_usuario(Client, [username |-> "alice", password |-> "secret"])
    \/ criar_usuario_commit(Client)
    \/ \E u \in Usernames, pw \in Passwords : login_for_access_token(Client, u, pw)
    \/ \E t \in Presentable : listar_veiculos(Client, t)
    \/ \E t \in Presentable, b \in AuthBodies : criar_veiculo(Client, t, b)
    \/ criar_veiculo_commit(Client)
    \/ \E t \in Presentable, i \in AuthIds : obter_veiculo(Client, t, i)
    \/ \E t \in Presentable, i \in AuthIds, st \in AuthStatus :
          atualizar_status(Client, t, i, st)
    \/ atualizar_status_commit(Client)
    \/ \E t \in Presentable, i \in AuthIds : excluir_veiculo(Client, t, i)
    \/ excluir_veiculo_commit(Client)
    \/ \E a \in {"create", "delete"} : main(Operator, a, "alice", "secret")
    \/ main_create_check(Operator)
    \/ main_create_commit(Operator)
    \/ main_delete_check(Operator)
    \/ main_delete_commit(Operator)

SpecAuth == InitUsuarios /\ [][NextAuth]_vars

(* =============================== claims ================================= *)
Authenticated(t) == t \in Presentable /\ get_current_active_user(t) # {}
Answered(p, op) == procs[p].op = op /\ procs[p].pc = "done"
\* a step in which slot p takes up a request or call of one of ops
Takes(p, ops) == Free(p) /\ procs'[p] # procs[p] /\ procs'[p].op \in ops

\* C1: in every reachable state, whatever the interleaving of the create,
\* status-update and delete requests and calls, no two stored vehicles have
\* the same placa.
C1_PlacaUnica ==
    \A a \in veiculos : \A b \in veiculos : a.placa = b.placa => a = b

\* two vehicles are stored and a crud.create_veiculo that passed its own
\* lookup lost the race at commit
C1_Witness ==
    /\ Cardinality(veiculos) = 2
    /\ \E p \in Procs : /\ Answered(p, "create_veiculo")
                        /\ procs[p].resp.detail = "Erro ao adicionar veiculo"

\* C2: an authenticated POST /veiculos whose placa is the placa of a vehicle
\* stored when the request commits (put there before the request started or
\* by a concurrent request since) is answered 400 "Placa ja registrada." and
\* leaves the stored vehicles exactly as they were.
C2_PlacaDuplicada400 ==
    [][\A p \in Procs :
          (/\ At(p, "criar_veiculo", "commit")
           /\ procs'[p].pc = "done"
           /\ get_veiculo_by_placa(veiculos, procs[p].arg.placa) # {})
          => (/\ procs'[p].resp.code = 400
              /\ procs'[p].resp.detail = "Placa ja registrada."
              /\ veiculos' = veiculos)]_vars

C2_Witness ==
    \E p \in Procs : /\ Answered(p, "criar_veiculo")
                     /\ procs[p].resp.code = 400
                     /\ procs[p].resp.detail = "Placa ja registrada."
                     /\ veiculos # {}

\* C4: an authenticated PUT /veiculos/{id}, and a crud.update_veiculo_status
\* call, whose status is not one of the two allowed values is rejected (400 on
\* the endpoint, ValueError from crud) for every id, stored or not, and every
\* stored vehicle is left as it was.
C4_StatusInvalidoRejeitado ==
    [][\A p \in Procs :
          /\ Takes(p, {"atualizar_status"}) => \A i \in Ids : \A t \in issued :
                (Authenticated(t) /\ atualizar_status(p, t, i, Invalido))
                => (/\ procs'[p].pc = "done"
                    /\ procs'[p].resp.code = 400
                    /\ veiculos' = veiculos)
          /\ Takes(p, {"update_veiculo_status"}) => \A i \in Ids :
                update_veiculo_status(p, i, Invalido)
                => (/\ procs'[p].pc = "done"
                    /\ procs'[p].resp.exc = "ValueError"
                    /\ veiculos' = veiculos)]_vars

C4_Witness ==
    /\ veiculos # {}
    /\ \E p \in Procs : /\ Answered(p, "atualizar_status")
                        /\ procs[p].resp.code = 400
    /\ \E p \in Procs : /\ Answered(p, "update_veiculo_status")
                        /\ procs[p].resp.exc = "ValueError"

\* C8 as stated: an authenticated POST /veiculos whose status is not one of
\* the two allowed values is answered 400 and stores nothing.
C8_StatusInvalido400 ==
    [][\A p \in Procs : Takes(p, {"criar_veiculo"}) =>
          \A t \in issued : \A b \in Bodies :
          (/\ Authenticated(t)
           /\ VeiculoCreate(b).status \notin StatusValidos
           /\ criar_veiculo(p, t, b))
          => (procs'[p].resp.code = 400 /\ veiculos' = veiculos)]_vars

\* C9: for an id that no stored vehicle has, an authenticated GET, PUT with a
\* valid status, or DELETE of /veiculos/{id} is answered 404 and leaves storage
\* as it was; and once a DELETE has committed, no stored vehicle has that id
\* (so the next GET, PUT or DELETE of it is a 404 until a create reuses the id).
C9_NaoEncontrado404 ==
    [][\A p \in Procs :
          /\ Takes(p, {"obter_veiculo", "excluir_veiculo", "atualizar_status"}) =>
             \A i \in Ids : ById(veiculos, i) = {} => \A t \in issued :
                (/\ Authenticated(t)
                 /\ \/ procs'[p].op = "obter_veiculo" /\ obter_veiculo(p, t, i)
                    \/ procs'[p].op = "excluir_veiculo" /\ excluir_veiculo(p, t, i)
                    \/ procs'[p].op = "atualizar_status" /\
                          \E st \in StatusValidos : atualizar_status(p, t, i, st))
                => (/\ procs'[p].pc = "done"
                    /\ procs'[p].resp.code = 404
                    /\ veiculos' = veiculos)
          /\ excluir_veiculo_commit(p) => ById(veiculos', procs[p].loc.id) = {}]_vars

\* a DELETE was answered 200 and a later request for a missing id got its 404
C9_Witness ==
    \E p \in Procs : \E q \in Procs :
        /\ Answered(p, "excluir_veiculo") /\ procs[p].resp.code = 200
        /\ Answered(q, "obter_veiculo") /\ procs[q].resp.code = 404
        /\ veiculos = {}

\* C3 as stated: creating a user whose username is stored when the creation
\* commits ends in the duplicate signal (400 on POST /usuarios/, ValueError from
\* crud.create_usuario), not in an unhandled storage error, and leaves the
\* stored users as they were.
C3_UsuarioDuplicadoSinalizado ==
    [][\A p \in Procs :
          /\ (/\ At(p, "criar_usuario", "commit")
              /\ procs'[p].pc = "done"
              /\ get_usuario_by_username(usuarios, procs[p].arg.username) # {})
             => (procs'[p].resp.code = 400 /\ usuarios' = usuarios)
          /\ (/\ At(p, "create_usuario", "commit")
              /\ procs'[p].pc = "done"
              /\ get_usuario_by_username(usuarios, procs[p].arg.username) # {})
             => (procs'[p].resp.exc = "ValueError" /\ usuarios' = usuarios)]_vars

\* C10: a run of the CLI never ends in a propagated exception; and create
\* without username or password, delete without username, create of a username
\* the run finds stored (at its own lookup, at crud.create_usuario's lookup or
\* at commit), and delete of a username the run finds missing (at its own
\* lookup or at crud.delete_usuario's query) each print a message and leave the
\* stored users as they were.
C10_CliNuncaPropaga ==
    [][\A p \in Procs :
          /\ (procs'[p].op = "main" /\ procs'[p].pc = "done") => procs'[p].resp.exc = ""
          /\ Takes(p, {"main"}) => \A u \in CliUsernames : \A pw \in CliPasswords :
                /\ (main(p, "create", u, pw) /\
                       (u = Omitted \/ pw = Omitted \/ get_usuario_by_username(usuarios, u) # {}))
                   => (/\ procs'[p].pc = "done" /\ procs'[p].resp.detail # ""
                       /\ usuarios' = usuarios)
                /\ (main(p, "delete", u, pw) /\
                       (u = Omitted \/ get_usuario_by_username(usuarios, u) = {}))
                   => (/\ procs'[p].pc = "done" /\ procs'[p].resp.detail # ""
                       /\ usuarios' = usuarios)
          /\ ((main_create_check(p) \/ main_create_commit(p)) /\
                 get_usuario_by_username(usuarios, procs[p].arg.username) # {})
             => (/\ procs'[p].pc = "done" /\ procs'[p].resp.detail # ""
                 /\ usuarios' = usuarios)
          /\ (main_delete_check(p) /\ ById(usuarios, procs[p].loc.id) = {})
             => (/\ procs'[p].pc = "done" /\ procs'[p].resp.detail # ""
                 /\ usuarios' = usuarios)]_vars

\* a CLI run hit an exception (a racing creation or deletion) and printed it
C10_Witness ==
    \E p \in Procs : /\ Answered(p, "main")
                     /\ procs[p].resp.detail = "Ocorreu um erro"
                     /\ usuarios # {}

VehicleOps ==
    {"listar_veiculos", "criar_veiculo", "obter_veiculo", "atualizar_status",
     "excluir_veiculo"}
\* slot p takes a request to one of the five vehicle endpoints carrying token t
\* (the requests the clients of SpecAuth send)
VehicleRequest(p, t) ==
    \/ procs'[p].op = "listar_veiculos" /\ listar_veiculos(p, t)
    \/ procs'[p].op = "criar_veiculo" /\ \E b \in AuthBodies : criar_veiculo(p, t, b)
    \/ procs'[p].op = "obter_veiculo" /\ \E i \in AuthIds : obter_veiculo(p, t, i)
    \/ procs'[p].op = "excluir_veiculo" /\ \E i \in AuthIds : excluir_veiculo(p, t, i)
    \/ procs'[p].op = "atualizar_status" /\
          \E i \in AuthIds : \E st \in AuthStatus : atualizar_status(p, t, i, st)

\* C5: a request to any of the five vehicle endpoints whose token does not
\* verify to an existing user is answered 401, carries no vehicle data and
\* leaves the vehicles as they were; GET /, POST /usuarios/ and POST /token
\* are processed with no token.
C5_SemTokenValido401 ==
    [][\A p \in Procs :
          /\ Takes(p, VehicleOps) => \A t \in Presentable :
                (~Authenticated(t) /\ VehicleRequest(p, t))
                => (/\ procs'[p].pc = "done"
                    /\ procs'[p].resp.code = 401
                    /\ procs'[p].resp.data = {}
                    /\ veiculos' = veiculos)
          /\ procs'[p].pc = "commit" /\ procs'[p].op \in VehicleOps /\ Free(p)
                => \E t \in Presentable : Authenticated(t)
          /\ Takes(p, {"read_root"}) => (read_root(p) => procs'[p].resp.code = 200)
          /\ Takes(p, {"criar_usuario"}) => \A u \in UsuarioBodies :
                (criar_usuario(p, u) /\ u.password # Omitted) => procs'[p].pc = "commit"
          /\ Takes(p, {"login_for_access_token"}) => \A u \in Usernames : \A pw \in Passwords :
                (login_for_access_token(p, u, pw) /\ authenticate_user(usuarios, u, pw) # {})
                => procs'[p].resp.code = 200]_vars

\* a token was issued, its user is gone, and a DELETE was answered 401 while a
\* vehicle is stored
C5_Witness ==
    /\ Answered(Client, "excluir_veiculo") /\ procs[Client].resp.code = 401
    /\ veiculos # {} /\ issued # {} /\ usuarios = {}

\* C6: POST /token answers 200 with a token for that username and token_type
\* "bearer" when a stored user has the username and the password matches its
\* hash; otherwise, whether the username is absent or the password is wrong,
\* it answers one and the same 401 with the WWW-Authenticate challenge and
\* issues no token.
C6_Login ==
    [][\A p \in Procs : Takes(p, {"login_for_access_token"}) =>
          \A u \in Usernames : \A pw \in Passwords :
             login_for_access_token(p, u, pw) =>
                IF \E row \in usuarios :
                      row.username = u /\ verify_password(pw, row.hashed_password)
                THEN /\ procs'[p].resp.code = 200
                     /\ \E tk \in issued' :
                           /\ tk.sub = u
                           /\ procs'[p].resp.data =
                                 {[access_token |-> tk, token_type |-> "bearer"]}
                ELSE /\ procs'[p].resp = Unauthorized
                     /\ issued' = issued]_vars

\* a login was refused after the user, who had logged in before, was deleted
C6_Witness ==
    /\ Answered(Client, "login_for_access_token") /\ procs[Client].resp.code = 401
    /\ issued # {} /\ usuarios = {}

\* C7: a token issued by POST /token expires ACCESS_TOKEN_EXPIRE_MINUTES after
\* it was issued; presented on a vehicle endpoint before that, while its user
\* exists, it resolves to that user and the request is not refused; presented
\* after that, the request is answered 401.
C7_Expiracao ==
    [][\A p \in Procs :
          /\ \A tk \in issued' \ issued :
                tk.exp = now + ACCESS_TOKEN_EXPIRE_MINUTES
          /\ Takes(p, VehicleOps) => \A t \in issued :
                VehicleRequest(p, t) =>
                   /\ (now < t.exp /\ get_usuario_by_username(usuarios, t.sub) # {})
                      => (/\ get_current_active_user(t) =
                                get_usuario_by_username(usuarios, t.sub)
                          /\ procs'[p].resp.code # 401)
                   /\ now > t.exp => procs'[p].resp.code = 401]_vars

\* every token handed out has expired, its user still exists, and a vehicle
\* request was answered 401
C7_Witness ==
    /\ issued # {} /\ \A t \in issued : now > t.exp /\ get_usuario_by_username(usuarios, t.sub) # {}
    /\ \E op \in VehicleOps : Answered(Client, op) /\ procs[Client].resp.code = 401

\* C11: in every reachable state every stored vehicle's status is one of the
\* two allowed values, and a POST /veiculos whose body carries no status is
\* taken up with, and stored with, the value DESCONECTADO.
C11_StatusSempreValido ==
    [][/\ \A v \in veiculos' : v.status \in {"CONNECTADO", "DESCONECTADO"}
       /\ \A p \in Procs :
             /\ Takes(p, {"criar_veiculo"}) => \A t \in issued : \A b \in Bodies :
                   (Authenticated(t) /\ b.status = Omitted /\ criar_veiculo(p, t, b))
                   => (/\ procs'[p].pc = "commit"
                       /\ procs'[p].arg.status = "DESCONECTADO")
             /\ (criar_veiculo_commit(p) /\ procs'[p].resp.code = 200)
                => \E r \in veiculos' \ veiculos :
                      /\ r.status = procs[p].arg.status
                      /\ r.placa = procs[p].arg.placa
                      /\ procs'[p].resp.data = {r.id}]_vars

\* the only request so far that is still visible created XYZ5678, which only a
\* body without status can leave DESCONECTADO, and the row is stored that way
C11_Witness ==
    \E p \in Procs : \E r \in veiculos :
        /\ Answered(p, "criar_veiculo") /\ procs[p].resp.data = {r.id}
        /\ r.placa = "XYZ5678" /\ r.status = "DESCONECTADO"
        /\ \A q \in Procs \ {p} : procs[q].pc = "idle"

====
